---- MODULE Spec2Model ----
(***************************************************************************)
(* A model of the two command-line tools of the repository:                *)
(*   1.ExcelToHTML/main.py       the HTML exporter                          *)
(*   2.ExcelDataHandling/main.py the round-trip demo (manipulate)           *)
(* The two tools share nothing; each has its own specification             *)
(* (SpecHtml, SpecData) over its own variables.                             *)
(***************************************************************************)
EXTENDS Integers, Sequences, FiniteSets, TLC

VARIABLES
    \* ---- HTML exporter ----
    workbook,   \* the file at args.excel: [status, sheets]
    args,       \* the parsed command line: [sheet, out, na]
    outState,   \* the file system at args.out: [writable, exists, content]
    hpc,        \* position of main(): start, loaded, rendered, done, fatal (idle: not run)
    loaded,     \* what pd.read_excel returned: [kind, items]
    html,       \* the rendered document, a sequence of HTML tokens
    stdout,     \* what was written to standard output
    exitCode,   \* process exit status (-1 while running)
    err,        \* the exception that ended the run ("" if none)
    \* ---- round-trip demo ----
    entry,      \* "main" (the script) or "call" (manipulate called on a frame)
    dpc,        \* position: start, created, loaded, manipulated, exported (idle: not run)
    xlsx,       \* the sheets of Input.xlsx (<<>> while the file is absent)
    df,         \* the frame handed to manipulate
    result,     \* (df_clean, df_pos, totals, pivot) returned by manipulate
    outBook     \* the sheets of Input_OUT.xlsx, in the order written

hvars == <<workbook, args, outState, hpc, loaded, html, stdout, exitCode, err>>
dvars == <<entry, dpc, xlsx, df, result, outBook>>
vars == <<workbook, args, outState, hpc, loaded, html, stdout, exitCode, err,
          entry, dpc, xlsx, df, result, outBook>>

\* ------------------------------------------------------------------ bounds
MaxSheets == 2
MaxRows == 2

\* --------------------------------------------------------------- sequences
RECURSIVE Flatten(_)
Flatten(ss) == IF ss = <<>> THEN <<>> ELSE Head(ss) \o Flatten(Tail(ss))

RECURSIVE SumSeq(_)
SumSeq(s) == IF s = <<>> THEN 0 ELSE Head(s) + SumSeq(Tail(s))

\* ========================================================================
\*                              HTML exporter
\* ========================================================================

\* A cell as pandas holds it after read_excel(dtype=str): NaN or a string.
NaCell == [na |-> TRUE, s |-> ""]
StrCell(t) == [na |-> FALSE, s |-> t]

\* An optional command-line value (argparse default=None).
None == [given |-> FALSE, v |-> ""]
Some(v) == [given |-> TRUE, v |-> v]

\* HTML tokens as a parser sees them.
Open(tag, id) == [k |-> "open", v |-> tag, id |-> id]
Close(tag) == [k |-> "close", v |-> tag, id |-> <<>>]
Text(raw) == [k |-> "text", v |-> raw, id |-> <<>>]

\* str.lower() on the sheet selectors of the model.
Lower(s) == CASE s = "ALL" -> "all"
              [] s = "All" -> "all"
              [] OTHER -> s

\* pandas' HTML escaping of a cell or header (escape=True): & < > are replaced.
EscapeHtml(s) == CASE s = "&" -> "&amp;"
                   [] s = "<table>" -> "&lt;table&gt;"
                   [] s = "&lt;" -> "&amp;lt;"
                   [] OTHER -> s

\* A string put into the markup as it is (an f-string): the parser sees the
\* tags it contains.
RawHtml(s) == CASE s = "<table>" -> <<Open("table", <<>>)>>
                [] s = "" -> <<>>
                [] OTHER -> <<Text(s)>>

\* Variant: the frame is rendered without fillna.
FillnaNoop(frame, value) == frame
\* df.fillna(value): every NaN cell becomes the value.
Fillna(frame, value) ==
    [frame EXCEPT !.rows =
        [i \in DOMAIN frame.rows |->
            [j \in DOMAIN frame.rows[i] |->
                IF frame.rows[i][j].na THEN StrCell(value) ELSE frame.rows[i][j]]]]

\* The text pandas formats a cell to (NaN prints as "NaN").
CellStr(c) == IF c.na THEN "NaN" ELSE c.s

\* df.to_html(index=False, border=0, classes="tbl", table_id=id)
ToHtml(frame, id) ==
    <<Open("table", id), Open("thead", <<>>), Open("tr", <<>>)>>
    \o Flatten([j \in DOMAIN frame.columns |->
            <<Open("th", <<>>)>> \o RawHtml(EscapeHtml(frame.columns[j]))
            \o <<Close("th")>>])
    \o <<Close("tr"), Close("thead"), Open("tbody", <<>>)>>
    \o Flatten([i \in DOMAIN frame.rows |->
            <<Open("tr", <<>>)>>
            \o Flatten([j \in DOMAIN frame.rows[i] |->
                  <<Open("td", <<>>)>>
                  \o RawHtml(EscapeHtml(CellStr(frame.rows[i][j])))
                  \o <<Close("td")>>])
            \o <<Close("tr")>>])
    \o <<Close("tbody"), Close("table")>>

Prelude == <<Open("!doctype", <<>>), Open("html", <<>>), Open("head", <<>>),
             Open("style", <<>>), Close("style"), Close("head"),
             Open("body", <<>>)>>
Postlude == <<Close("body"), Close("html")>>

df_to_html(frame, table_id) == Prelude \o ToHtml(frame, table_id) \o Postlude

dfs_to_html(maps) ==
    Prelude
    \o Flatten([i \in DOMAIN maps |->
          <<Open("h2", <<>>)>> \o RawHtml(maps[i].name) \o <<Close("h2")>>
          \o ToHtml(maps[i], <<"tbl_", i>>)])
    \o Postlude

\* pd.read_excel(..., dtype=str) of one sheet: the header row names the columns.
ReadSheet(sh) == [name |-> sh.name, columns |-> sh.columns, rows |-> sh.rows]

SheetIndex(sheets, name) ==
    IF \E i \in DOMAIN sheets : sheets[i].name = name
    THEN CHOOSE i \in DOMAIN sheets : sheets[i].name = name
    ELSE 0

\* The condition of main's first branch: args.sheet and args.sheet.lower() == "all"
IsAll(a) == a.sheet.given /\ a.sheet.v # "" /\ Lower(a.sheet.v) = "all"

\* main, line 86: if args.out
ToFile(a) == a.out.given /\ a.out.v # ""

\* Variant: the output file is opened for writing before the workbook is read, so
\* a failing run leaves it truncated.
FatalTruncating(e) ==
    /\ hpc' = "fatal"
    /\ err' = e
    /\ exitCode' = 1
    /\ outState' = IF ToFile(args) /\ outState.writable
                   THEN [outState EXCEPT !.content = <<>>, !.exists = TRUE]
                   ELSE outState
    /\ UNCHANGED <<workbook, args, html, stdout>>
\* An uncaught exception: traceback on stderr, exit status 1, nothing written.
Fatal(e) ==
    /\ hpc' = "fatal"
    /\ err' = e
    /\ exitCode' = 1
    /\ UNCHANGED <<workbook, args, outState, html, stdout>>

\* main, lines 74-75: dfs = pd.read_excel(args.excel, sheet_name=None, dtype=str)
ReadExcelAll ==
    /\ hpc = "start"
    /\ IsAll(args)
    /\ UNCHANGED dvars
    /\ \/ /\ workbook.status = "missing"
          /\ Fatal("FileNotFoundError")
          /\ UNCHANGED loaded
       \/ /\ workbook.status = "invalid"
          /\ Fatal("ValueError")
          /\ UNCHANGED loaded
       \/ /\ workbook.status = "ok"
          /\ loaded' = [kind |-> "dict",
                        items |-> [i \in DOMAIN workbook.sheets |->
                                      ReadSheet(workbook.sheets[i])]]
          /\ hpc' = "loaded"
          /\ UNCHANGED <<workbook, args, outState, html, stdout, exitCode, err>>

\* main, lines 80-82: df = pd.read_excel(args.excel, sheet_name=args.sheet, dtype=str)
\* sheet_name=None makes pandas return the dict of all sheets.
ReadExcelSingle ==
    /\ hpc = "start"
    /\ ~IsAll(args)
    /\ UNCHANGED dvars
    /\ \/ /\ workbook.status = "missing"
          /\ Fatal("FileNotFoundError")
          /\ UNCHANGED loaded
       \/ /\ workbook.status = "invalid"
          /\ Fatal("ValueError")
          /\ UNCHANGED loaded
       \/ /\ workbook.status = "ok"
          /\ args.sheet.given
          /\ SheetIndex(workbook.sheets, args.sheet.v) = 0
          /\ Fatal("ValueError")
          /\ UNCHANGED loaded
       \/ /\ workbook.status = "ok"
          /\ args.sheet.given
          /\ SheetIndex(workbook.sheets, args.sheet.v) # 0
          /\ loaded' = [kind |-> "frame",
                        items |-> <<ReadSheet(workbook.sheets[
                                      SheetIndex(workbook.sheets, args.sheet.v)])>>]
          /\ hpc' = "loaded"
          /\ UNCHANGED <<workbook, args, outState, html, stdout, exitCode, err>>
       \/ /\ workbook.status = "ok"
          /\ ~args.sheet.given
          /\ loaded' = [kind |-> "dict",
                        items |-> [i \in DOMAIN workbook.sheets |->
                                      ReadSheet(workbook.sheets[i])]]
          /\ hpc' = "loaded"
          /\ UNCHANGED <<workbook, args, outState, html, stdout, exitCode, err>>

\* main, lines 76-79: fillna on every sheet, then dfs_to_html
RenderAll ==
    /\ hpc = "loaded"
    /\ IsAll(args)
    /\ UNCHANGED dvars
    /\ html' = dfs_to_html([i \in DOMAIN loaded.items |->
                               Fillna(loaded.items[i], args.na)])
    /\ hpc' = "rendered"
    /\ UNCHANGED <<workbook, args, outState, loaded, stdout, exitCode, err>>

\* main, lines 83-84: df.fillna(args.na), then df_to_html(df, "table1");
\* a dict has no fillna.
RenderSingle ==
    /\ hpc = "loaded"
    /\ ~IsAll(args)
    /\ UNCHANGED dvars
    /\ \/ /\ loaded.kind = "dict"
          /\ Fatal("AttributeError")
          /\ UNCHANGED loaded
       \/ /\ loaded.kind = "frame"
          /\ html' = df_to_html(Fillna(loaded.items[1], args.na), <<"table", 1>>)
          /\ hpc' = "rendered"
          /\ UNCHANGED <<workbook, args, outState, loaded, stdout, exitCode, err>>

\* main, lines 86-92: the output sink
WriteOut ==
    /\ hpc = "rendered"
    /\ UNCHANGED dvars
    /\ \/ /\ ToFile(args)
          /\ ~outState.writable
          /\ Fatal("PermissionError")
          /\ UNCHANGED loaded
       \/ /\ ToFile(args)
          /\ outState.writable
          /\ outState' = [outState EXCEPT !.content = html, !.exists = TRUE]
          /\ stdout' = <<Text("Written HTML to:"), Text(args.out.v)>>
          /\ hpc' = "done"
          /\ exitCode' = 0
          /\ UNCHANGED <<workbook, args, loaded, html, err>>
       \/ /\ ~ToFile(args)
          /\ stdout' = html
          /\ hpc' = "done"
          /\ exitCode' = 0
          /\ UNCHANGED <<workbook, args, outState, loaded, html, err>>

\* ---- inputs of the exporter
SheetNames == {"Jan", "Feb", "<table>"}
ColumnNames == <<"Item">>
SheetBodies == {<<>>,
                <<<<NaCell>>>>,
                <<<<StrCell("a")>>, <<NaCell>>>>,
                <<<<StrCell("<table>")>>>>,
                <<<<NaCell>>, <<StrCell("&lt;")>>>>}
Sheets == [name : SheetNames, columns : {ColumnNames}, rows : SheetBodies]
Workbooks ==
    {[status |-> "missing", sheets |-> <<>>], [status |-> "invalid", sheets |-> <<>>]}
    \cup {[status |-> "ok", sheets |-> ss] :
            ss \in {s \in UNION {[1..k -> Sheets] : k \in 1..MaxSheets} :
                      \A i, j \in DOMAIN s : i # j => s[i].name # s[j].name}}
SheetArgs == {None, Some("all"), Some("ALL"), Some("Jan"), Some("Nope"), Some("")}
OutArgs == {None, Some(""), Some("out.html")}
NaArgs == {"", "-", "<table>"}
OutStates == {[writable |-> TRUE, exists |-> FALSE, content |-> <<>>],
              [writable |-> TRUE, exists |-> TRUE, content |-> <<Text("old")>>],
              [writable |-> FALSE, exists |-> TRUE, content |-> <<Text("old")>>]}

DataIdle ==
    /\ entry = "none"
    /\ dpc = "idle"
    /\ xlsx = <<>>
    /\ df = [cols |-> <<>>, rows |-> <<>>]
    /\ result = <<>>
    /\ outBook = <<>>

InitHtml ==
    /\ workbook \in Workbooks
    /\ args \in [sheet : SheetArgs, out : OutArgs, na : NaArgs]
    /\ outState \in OutStates
    /\ (~ToFile(args)) => outState = [writable |-> TRUE, exists |-> FALSE,
                                        content |-> <<>>]
    /\ hpc = "start"
    /\ loaded = [kind |-> "none", items |-> <<>>]
    /\ html = <<>>
    /\ stdout = <<>>
    /\ exitCode = -1
    /\ err = ""
    /\ DataIdle

NextHtml == ReadExcelAll \/ ReadExcelSingle \/ RenderAll \/ RenderSingle \/ WriteOut

SpecHtml == InitHtml /\ [][NextHtml]_vars

\* ---- reading a document back, as an HTML parser does
\* Entity decoding of a text node.
Decode(raw) == CASE raw = "&amp;" -> "&"
                 [] raw = "&lt;table&gt;" -> "<table>"
                 [] raw = "&amp;lt;" -> "&lt;"
                 [] raw = "&lt;" -> "<"
                 [] OTHER -> raw

IsOpen(t, tag) == t.k = "open" /\ t.v = tag
IsClose(t, tag) == t.k = "close" /\ t.v = tag

NumTables(doc) == Cardinality({i \in DOMAIN doc : IsOpen(doc[i], "table")})

\* The decoded text of every <tag> element of the document, in document order:
\* cur = <<inside an element, its text so far>>.
RECURSIVE ScanTexts(_, _, _, _, _)
ScanTexts(doc, tag, i, cur, acc) ==
    IF i > Len(doc) THEN acc
    ELSE IF IsOpen(doc[i], tag) THEN ScanTexts(doc, tag, i + 1, <<TRUE, <<>>>>, acc)
    ELSE IF IsClose(doc[i], tag) /\ cur[1]
         THEN ScanTexts(doc, tag, i + 1, <<FALSE, <<>>>>, Append(acc, cur[2]))
    ELSE IF doc[i].k = "text" /\ cur[1]
         THEN ScanTexts(doc, tag, i + 1, <<TRUE, Append(cur[2], Decode(doc[i].v))>>, acc)
    ELSE ScanTexts(doc, tag, i + 1, cur, acc)
ElemTexts(doc, tag) == ScanTexts(doc, tag, 1, <<FALSE, <<>>>>, <<>>)

\* The headings and tables of a document, in document order.
IsHeadingOrTable(t) == IsOpen(t, "h2") \/ IsOpen(t, "table")
Outline(doc) == [i \in DOMAIN SelectSeq(doc, IsHeadingOrTable) |->
                    SelectSeq(doc, IsHeadingOrTable)[i].v]

\* A text as the sequence of its non-empty pieces.
Pieces(s) == IF s = "" THEN <<>> ELSE <<s>>

\* The body cells a sheet is to show: the placeholder for a missing cell.
ExpectedCells(sh, na) ==
    Flatten([i \in DOMAIN sh.rows |->
        [j \in DOMAIN sh.rows[i] |->
            IF sh.rows[i][j].na THEN Pieces(na) ELSE Pieces(sh.rows[i][j].s)]])

HtmlEnded == hpc \in {"done", "fatal"}
HasNa(sh) == \E i \in DOMAIN sh.rows : \E j \in DOMAIN sh.rows[i] : sh.rows[i][j].na

\* C1: with no --sheet option and a workbook of one or more sheets, a run that the
\* output sink does not stop ends with one document holding exactly one table,
\* id table1, showing the first sheet.
C1_DefaultIsFirstSheet ==
    (HtmlEnded /\ ~args.sheet.given /\ workbook.status = "ok"
        /\ err # "PermissionError")
    => /\ hpc = "done"
       /\ NumTables(html) = 1
       /\ \E i \in DOMAIN html : html[i] = Open("table", <<"table", 1>>)
       /\ ElemTexts(html, "td") = ExpectedCells(workbook.sheets[1], args.na)

\* C2: with --sheet all and a workbook of N sheets the document holds exactly N
\* tables, each preceded by a heading with its sheet's name, in sheet order.
C2_AllSheetsNTables ==
    (hpc \in {"rendered", "done"} /\ IsAll(args))
    => /\ NumTables(html) = Len(workbook.sheets)
       /\ ElemTexts(html, "h2") =
             [i \in DOMAIN workbook.sheets |-> <<workbook.sheets[i].name>>]
       /\ Outline(html) = Flatten([i \in DOMAIN workbook.sheets |-> <<"h2", "table">>])

\* C3: the output (file or standard output) changes only in the step that follows
\* the complete rendering, and a run that ends in a fatal error leaves the output
\* file and standard output untouched and exits non-zero.
C3_NoOutputBeforeRender ==
    [][ /\ (outState' # outState \/ stdout' # stdout)
           => /\ hpc = "rendered" /\ hpc' = "done"
              /\ loaded.kind # "none"
              /\ Len(html) > 0 /\ html[Len(html)] = Close("html")
              /\ (ToFile(args) => outState'.content = html)
              /\ (~ToFile(args) => stdout' = html /\ outState' = outState)
        /\ hpc' = "fatal"
           => /\ outState' = outState /\ stdout' = stdout /\ stdout = <<>>
              /\ exitCode' # 0 ]_vars

C3_Witness ==
    /\ hpc = "fatal" /\ err = "ValueError"
    /\ workbook.status = "ok" /\ args.sheet.given /\ args.sheet.v = "Nope"
    /\ ToFile(args) /\ outState.exists /\ outState.content = <<Text("old")>>

NA == [k |-> "na", s |-> <<>>, n |-> 0]
Txt(s) == [k |-> "txt", s |-> s, n |-> 0]
Num(n) == [k |-> "num", s |-> <<>>, n |-> n]
Dt(y, m, d) == [k |-> "date", s |-> <<>>, n |-> y * 10000 + m * 100 + d]

AllCols == {"Date", "Category", "Amount", "Notes", "YearMonth", "VAT_20"}

\* A frame is [cols, rows]: the ordered column names and the rows, each a record
\* with its index label (idx) and one cell per column (NA in a column the frame
\* does not have).
HasCol(f, c) == \E j \in DOMAIN f.cols : f.cols[j] = c
AddCol(cols, c) == IF \E j \in DOMAIN cols : cols[j] = c THEN cols ELSE Append(cols, c)
ColPos(cols, c) == CHOOSE j \in DOMAIN cols : cols[j] = c

\* ---- string order (Python compares strings by code point)
SymOrder == <<"-", "0", "1", "2", "3", "4", "5", "6", "7", "8", "9",
              "All", "Food", "N", "Rent", "T", "Transport", "a", "x">>
Ord(c) == CHOOSE i \in DOMAIN SymOrder : SymOrder[i] = c

RECURSIVE LexLess(_, _)
LexLess(a, b) ==
    IF b = <<>> THEN FALSE
    ELSE IF a = <<>> THEN TRUE
    ELSE IF Ord(Head(a)) # Ord(Head(b)) THEN Ord(Head(a)) < Ord(Head(b))
    ELSE LexLess(Tail(a), Tail(b))

\* The elements of a set of strings in ascending order.
RECURSIVE SortStrings(_)
SortStrings(S) ==
    IF S = {} THEN <<>>
    ELSE LET m == CHOOSE x \in S : \A y \in S \ {x} : LexLess(x, y)
         IN <<m>> \o SortStrings(S \ {m})

\* ---- conversions
Digits == <<"0", "1", "2", "3", "4", "5", "6", "7", "8", "9">>
IsDigit(c) == \E i \in DOMAIN Digits : Digits[i] = c
DigitVal(c) == (CHOOSE i \in DOMAIN Digits : Digits[i] = c) - 1

Digit(i) == Digits[i + 1]

RECURSIVE ParseDigits(_, _)
ParseDigits(s, acc) ==
    IF s = <<>> THEN acc ELSE ParseDigits(Tail(s), acc * 10 + DigitVal(Head(s)))

\* pd.to_numeric(col, errors="coerce") of one cell: a number, or NaN.
ToNumeric(c) ==
    CASE c.k = "num" -> c
      [] c.k = "txt" /\ c.s # <<>> /\ (\A i \in DOMAIN c.s : IsDigit(c.s[i]))
            -> Num(ParseDigits(c.s, 0))
      [] OTHER -> NA

\* .fillna(0.0) of one cell, as the number it holds
FillZero(c) == IF c.k = "na" THEN 0 ELSE c.n

\* pd.to_datetime(col, errors="coerce") of one cell: a timestamp, or NaT.
ToDatetime(c) == IF c.k = "date" THEN c ELSE NA

\* Variant: the month is not padded to two digits.
FmtYearMonthUnpadded(ym) ==
    LET y == ym \div 100
        m == ym % 100
    IN <<Digit(y \div 1000), Digit((y \div 100) % 10), Digit((y \div 10) % 10),
         Digit(y % 10), "-">>
       \o (IF m >= 10 THEN <<Digit(m \div 10)>> ELSE <<>>) \o <<Digit(m % 10)>>
\* str(Period(freq="M")): the year in four digits, a hyphen, the month in two.
FmtYearMonth(ym) ==
    LET y == ym \div 100
        m == ym % 100
    IN <<Digit(y \div 1000), Digit((y \div 100) % 10), Digit((y \div 10) % 10),
         Digit(y % 10), "-", Digit(m \div 10), Digit(m % 10)>>

NaTStr == <<"N", "a", "T">>

\* col.dt.to_period("M").astype(str) of one cell; NaT becomes the string "NaT".
PeriodStr(c) == IF c.k = "date" THEN Txt(FmtYearMonth(c.n \div 100)) ELSE Txt(NaTStr)

\* (Amount * 0.20).round(2), in hundredths
Vat20(a) == a * 20

\* ---- the steps of manipulate
\* line 52: df.dropna(how="all")
DropAllNa(f) ==
    LET Keep(r) == \E j \in DOMAIN f.cols : r[f.cols[j]].k # "na"
    IN [f EXCEPT !.rows = SelectSeq(f.rows, Keep)]

\* lines 55-57: Amount exists and is numeric
EnsureAmount(f) ==
    [cols |-> AddCol(f.cols, "Amount"),
     rows |-> [i \in DOMAIN f.rows |->
                 [f.rows[i] EXCEPT !.Amount =
                     IF HasCol(f, "Amount") THEN FillZero(ToNumeric(@)) ELSE 1]]]

\* lines 60-62: parse Date, build YearMonth
BuildYearMonth(f) ==
    IF HasCol(f, "Date")
    THEN [cols |-> AddCol(f.cols, "YearMonth"),
          rows |-> [i \in DOMAIN f.rows |->
                      [f.rows[i] EXCEPT !.Date = ToDatetime(@),
                                        !.YearMonth = PeriodStr(ToDatetime(f.rows[i].Date))]]]
    ELSE f

\* line 65: the VAT column
AddVat(f) ==
    [cols |-> AddCol(f.cols, "VAT_20"),
     rows |-> [i \in DOMAIN f.rows |-> [f.rows[i] EXCEPT !.VAT_20 = Vat20(f.rows[i].Amount)]]]

\* Variant: the filter keeps Amount >= 0.
PositiveOnlyGe(f) ==
    LET Pos(r) == r.Amount >= 0 IN [f EXCEPT !.rows = SelectSeq(f.rows, Pos)]
\* line 68: df[df["Amount"] > 0]
PositiveOnly(f) ==
    LET Pos(r) == r.Amount > 0 IN [f EXCEPT !.rows = SelectSeq(f.rows, Pos)]

\* lines 71-73: a frame without Category gets the one category "All"
EnsureCategory(f) ==
    IF HasCol(f, "Category") THEN f
    ELSE [cols |-> Append(f.cols, "Category"),
          rows |-> [i \in DOMAIN f.rows |-> [f.rows[i] EXCEPT !.Category = Txt(<<"All">>)]]]

\* groupby(keys) drops the rows with a missing key (dropna=True)
Grouped(f, keys) ==
    LET Keyed(r) == \A j \in DOMAIN keys : r[keys[j]].k # "na"
    IN SelectSeq(f.rows, Keyed)

\* Variant: the groups are counted, not summed.
GroupCount(rows, cat, ym, byMonth) ==
    LET In(r) == r.Category.s = cat /\ (byMonth => r.YearMonth.s = ym)
    IN Len(SelectSeq(rows, In))
\* the sum of Amount over the rows of a group
GroupSum(rows, cat, ym, byMonth) ==
    LET In(r) == r.Category.s = cat /\ (byMonth => r.YearMonth.s = ym)
    IN SumSeq([i \in DOMAIN SelectSeq(rows, In) |-> SelectSeq(rows, In)[i].Amount])

\* lines 76-78 and 85-87: groupby(...)["Amount"].sum().sort_values(...)
Totals(pos, byMonth) ==
    LET keys == IF byMonth THEN <<"Category", "YearMonth">> ELSE <<"Category">>
        g == Grouped(pos, keys)
        cats == SortStrings({g[i].Category.s : i \in DOMAIN g})
        MonthsOf(c) == IF byMonth
                       THEN SortStrings({g[i].YearMonth.s :
                                            i \in {k \in DOMAIN g : g[k].Category.s = c}})
                       ELSE <<<<>>>>
    IN [cols |-> keys \o <<"Amount">>,
        rows |-> Flatten([ci \in DOMAIN cats |->
                    [mi \in DOMAIN MonthsOf(cats[ci]) |->
                        [Category |-> Txt(cats[ci]),
                         YearMonth |-> IF byMonth THEN Txt(MonthsOf(cats[ci])[mi]) ELSE NA,
                         Amount |-> GroupSum(g, cats[ci], MonthsOf(cats[ci])[mi], byMonth)]]])]

\* lines 79-83: pivot_table(index="Category", columns="YearMonth", values="Amount",
\*                          aggfunc="sum", fill_value=0).sort_index()
NoPivot == [present |-> FALSE, index |-> <<>>, columns |-> <<>>, values |-> <<>>]
PivotTable(pos) ==
    LET g == Grouped(pos, <<"Category", "YearMonth">>)
        cats == SortStrings({g[i].Category.s : i \in DOMAIN g})
        months == SortStrings({g[i].YearMonth.s : i \in DOMAIN g})
    IN [present |-> TRUE, index |-> cats, columns |-> months,
        values |-> [ci \in DOMAIN cats |-> [mi \in DOMAIN months |->
                       GroupSum(g, cats[ci], months[mi], TRUE)]]]

\* manipulate(df), lines 39-90
manipulate(f) ==
    LET d == AddVat(BuildYearMonth(EnsureAmount(DropAllNa(f))))
        p == PositiveOnly(d)
        clean == EnsureCategory(d)
        pos == IF HasCol(d, "Category") THEN p
               ELSE [cols |-> Append(p.cols, "Category"),
                     rows |-> [i \in DOMAIN p.rows |->
                                 [p.rows[i] EXCEPT !.Category = Txt(<<"All">>)]]]
    IN [clean |-> clean,
        pos |-> pos,
        totals |-> Totals(pos, HasCol(clean, "YearMonth")),
        pivot |-> IF HasCol(clean, "YearMonth") THEN PivotTable(pos) ELSE NoPivot]

\* ---- spreadsheet codec
\* df.to_excel(path, index=False): a header row and the cells, without the index
ToSheet(name, f) ==
    [name |-> name, header |-> f.cols,
     cells |-> [i \in DOMAIN f.rows |-> [j \in DOMAIN f.cols |-> f.rows[i][f.cols[j]]]]]

\* str(c).strip() of a column name
Strip(c) == CASE c = " Amount " -> "Amount"
              [] c = "Date " -> "Date"
              [] OTHER -> c

\* pd.read_excel(path, sheet_name=0) followed by the header normalisation of
\* load_excel_first_sheet: a fresh index 0..n-1, one cell per column
FrameOf(sheet) ==
    LET cols == [j \in DOMAIN sheet.header |-> Strip(sheet.header[j])]
    IN [cols |-> cols,
        rows |-> [i \in DOMAIN sheet.cells |->
                    [x \in AllCols \cup {"idx"} |->
                        IF x = "idx" THEN i - 1
                        ELSE IF \E j \in DOMAIN cols : cols[j] = x
                             THEN sheet.cells[i][ColPos(cols, x)]
                             ELSE NA]]]

\* pd.DataFrame(data) of rows given column by column
MkFrame(cols, cells) ==
    FrameOf([name |-> "", header |-> cols, cells |-> cells])

\* create_sample_excel, lines 16-29: the six sample rows
Word(w) == Txt(<<w>>)
SampleFrame ==
    MkFrame(<<"Date", "Category", "Amount", "Notes">>,
        << <<Dt(2025, 1, 5), Word("Food"), Num(50), Word("Groceries")>>,
           <<Dt(2025, 1, 10), Word("Transport"), Num(20), Word("Bus fare")>>,
           <<Dt(2025, 2, 3), Word("Food"), Num(30), Word("Lunch")>>,
           <<Dt(2025, 2, 15), Word("Rent"), Num(500), Word("Monthly rent")>>,
           <<Dt(2025, 3, 7), Word("Transport"), Num(25), Word("Taxi")>>,
           <<Dt(2025, 3, 20), Word("Food"), Num(45), Word("Dinner")>> >>)

\* ---- the steps of main, lines 108-122
CreateSampleExcel ==
    /\ dpc = "start"
    /\ xlsx' = <<ToSheet("Sheet1", SampleFrame)>>
    /\ dpc' = "created"
    /\ UNCHANGED <<entry, df, result, outBook>>
    /\ UNCHANGED hvars

LoadExcelFirstSheet ==
    /\ dpc = "created"
    /\ df' = FrameOf(xlsx[1])
    /\ dpc' = "loaded"
    /\ UNCHANGED <<entry, xlsx, result, outBook>>
    /\ UNCHANGED hvars

Manipulate ==
    /\ dpc = "loaded"
    /\ result' = manipulate(df)
    /\ dpc' = "manipulated"
    /\ UNCHANGED <<entry, xlsx, df, outBook>>
    /\ UNCHANGED hvars

\* export_results, lines 99-104
ExportResults ==
    /\ dpc = "manipulated"
    /\ outBook' = <<ToSheet("Cleaned", result.clean),
                    ToSheet("PositiveOnly", result.pos),
                    ToSheet("Totals", result.totals)>>
                  \o (IF result.pivot.present
                      THEN <<[name |-> "Pivot", header |-> result.pivot.columns,
                              cells |-> result.pivot.values]>>
                      ELSE <<>>)
    /\ dpc' = "exported"
    /\ UNCHANGED <<entry, xlsx, df, result>>
    /\ UNCHANGED hvars

\* ---- inputs of manipulate
DateCells == {NA, Word("soon"), Dt(2025, 1, 5), Dt(2025, 2, 3)}
CategoryCells == {NA, Word("Food"), Word("Rent")}
AmountCells == {NA, Word("x"), Num(-5), Num(30)}
YearMonthCells == {NA, Txt(<<"2", "0", "2", "5", "-", "0", "1">>)}
\* the frames without a Date column also hold a number written as text
CellsOf(c, cols) ==
    CASE c = "Date" -> DateCells
      [] c = "Category" -> CategoryCells
      [] c = "Amount" -> IF \E j \in DOMAIN cols : cols[j] = "Date"
                         THEN AmountCells
                         ELSE AmountCells \cup {Txt(<<"2", "0">>)}
      [] c = "YearMonth" -> YearMonthCells
InputCols == {<<"Date", "Category", "Amount">>,
              <<"Category", "Amount">>,
              <<"Date", "Amount">>,
              <<"Date", "Category">>,
              <<"YearMonth", "Category", "Amount">>}
\* the rows over the given columns: one cell of its column's set in each place
RowsOf(cols) ==
    {r \in [DOMAIN cols -> DateCells \cup CategoryCells \cup AmountCells
                              \cup {Txt(<<"2", "0">>)} \cup YearMonthCells] :
        \A j \in DOMAIN cols : r[j] \in CellsOf(cols[j], cols)}

HtmlIdle ==
    /\ workbook = [status |-> "missing", sheets |-> <<>>]
    /\ args = [sheet |-> None, out |-> None, na |-> ""]
    /\ outState = [writable |-> TRUE, exists |-> FALSE, content |-> <<>>]
    /\ hpc = "idle"
    /\ loaded = [kind |-> "none", items |-> <<>>]
    /\ html = <<>>
    /\ stdout = <<>>
    /\ exitCode = -1
    /\ err = ""

EmptyFrame == [cols |-> <<>>, rows |-> <<>>]
NoResult == [clean |-> EmptyFrame, pos |-> EmptyFrame, totals |-> EmptyFrame,
             pivot |-> NoPivot]

InitData ==
    /\ HtmlIdle
    /\ xlsx = <<>>
    /\ result = NoResult
    /\ outBook = <<>>
    /\ \/ entry = "main" /\ dpc = "start" /\ df = EmptyFrame
       \/ /\ entry = "call" /\ dpc = "loaded"
          /\ \E cols \in InputCols : \E n \in 0..MaxRows :
                \E cells \in [1..n -> RowsOf(cols)] : df = MkFrame(cols, cells)

NextData == CreateSampleExcel \/ LoadExcelFirstSheet \/ Manipulate \/ ExportResults

SpecData == InitData /\ [][NextData]_vars

\* ---- what the claims say of manipulate and of the exported workbook
Manipulated == dpc \in {"manipulated", "exported"}

Amounts(rows) == [i \in DOMAIN rows |-> rows[i].Amount]

\* A year-month key: four digits, a hyphen, two digits naming a month.
IsYearMonthKey(s) ==
    /\ Len(s) = 7
    /\ s[5] = "-"
    /\ \A i \in {1, 2, 3, 4, 6, 7} : IsDigit(s[i])
    /\ ParseDigits(SubSeq(s, 6, 7), 0) \in 1..12

\* The year-month key of a date cell.
IsKeyOf(s, c) ==
    /\ IsYearMonthKey(s)
    /\ ParseDigits(SubSeq(s, 1, 4), 0) = c.n \div 10000
    /\ ParseDigits(SubSeq(s, 6, 7), 0) = (c.n \div 100) % 100

IsAscending(ss) == \A i, j \in DOMAIN ss : i < j => LexLess(ss[i], ss[j])

\* C5: Totals accounts for exactly the positive-only rows: each Totals row holds
\* the sum of its key's rows, every positive-only row belongs to exactly one
\* Totals row, and the Totals amounts add up to the positive-only amounts.
C5_TotalsCoverPositiveRows ==
    Manipulated =>
        LET pos == result.pos.rows
            tot == result.totals.rows
            byMonth == HasCol(result.totals, "YearMonth")
            Key(r) == <<r.Category, IF byMonth THEN r.YearMonth ELSE NA>>
        IN /\ \A t \in DOMAIN tot :
                 LET Same(r) == Key(r) = Key(tot[t])
                 IN tot[t].Amount = SumSeq(Amounts(SelectSeq(pos, Same)))
           /\ \A i \in DOMAIN pos :
                 Cardinality({t \in DOMAIN tot : Key(tot[t]) = Key(pos[i])}) = 1
           /\ SumSeq(Amounts(tot)) = SumSeq(Amounts(pos))

\* C6: with a Date column, for every category C and year-month M that occur among
\* the positive-only rows the Pivot cell (C, M) is the sum of Amount over the
\* positive-only rows of C and M (0 if there is none); rows ascend by category.
C6_PivotCells ==
    (Manipulated /\ HasCol(df, "Date")) =>
        LET pos == result.pos.rows
            pv == result.pivot
            cats == {pos[i].Category.s : i \in {k \in DOMAIN pos : pos[k].Category.k # "na"}}
            months == {pos[i].YearMonth.s : i \in DOMAIN pos}
        IN /\ pv.present
           /\ IsAscending(pv.index)
           /\ \A c \in cats : \A m \in months :
                 \E ci \in DOMAIN pv.index : \E mi \in DOMAIN pv.columns :
                    LET In(r) == r.Category = Txt(c) /\ r.YearMonth = Txt(m)
                    IN /\ pv.index[ci] = c
                       /\ pv.columns[mi] = m
                       /\ pv.values[ci][mi] = SumSeq(Amounts(SelectSeq(pos, In)))

\* C7: the pipeline run on the six sample rows gives Totals that add up per
\* category to Food 125, Rent 500, Transport 45 and the Pivot
\*            2025-01 2025-02 2025-03
\*  Food         50      30      45
\*  Rent          0     500       0
\*  Transport    20       0      25
January == <<"2", "0", "2", "5", "-", "0", "1">>
February == <<"2", "0", "2", "5", "-", "0", "2">>
March == <<"2", "0", "2", "5", "-", "0", "3">>
C7_SampleTotalsAndPivot ==
    (entry = "main" /\ Manipulated) =>
        LET tot == result.totals.rows
            Of(c) == LET Is(r) == r.Category = Word(c) IN SumSeq(Amounts(SelectSeq(tot, Is)))
        IN /\ Of("Food") = 125 /\ Of("Transport") = 45 /\ Of("Rent") = 500
           /\ SumSeq(Amounts(tot)) = 670
           /\ result.pivot.present
           /\ result.pivot.index = <<<<"Food">>, <<"Rent">>, <<"Transport">>>>
           /\ result.pivot.columns = <<January, February, March>>
           /\ result.pivot.values = <<<<50, 30, 45>>, <<0, 500, 0>>, <<20, 0, 25>>>>

C7_Witness ==
    /\ entry = "main" /\ dpc = "exported"
    /\ Len(result.clean.rows) = 6
    /\ Len(outBook) = 4 /\ outBook[4].cells[2] = <<0, 500, 0>>

SheetNamesOf(book) == [i \in DOMAIN book |-> book[i].name]

\* C8: an input without a Date column (also one that has a YearMonth column) gives
\* no Pivot and no Pivot sheet; an input with a Date column gives a Pivot and the
\* sheets Cleaned, PositiveOnly, Totals, Pivot.
C8_PivotOnlyFromDate ==
    (dpc = "exported") =>
        IF HasCol(df, "Date")
        THEN /\ result.pivot.present
             /\ SheetNamesOf(outBook) = <<"Cleaned", "PositiveOnly", "Totals", "Pivot">>
        ELSE /\ ~result.pivot.present
             /\ SheetNamesOf(outBook) = <<"Cleaned", "PositiveOnly", "Totals">>

\* C9: PositiveOnly is Cleaned restricted to the rows with Amount > 0: the same
\* columns (VAT_20, YearMonth when there is a Date, Category always), the same
\* cells, the same order; a missing or unparseable Amount is 0 and is left out.
NotANumber(c) == c.k = "na" \/ (c.k = "txt" /\ \E i \in DOMAIN c.s : ~IsDigit(c.s[i]))
C9_PositiveOnlyIsFilteredCleaned ==
    Manipulated =>
        LET clean == result.clean
            pos == result.pos
            Positive(r) == r.Amount > 0
        IN /\ pos.cols = clean.cols
           /\ pos.rows = SelectSeq(clean.rows, Positive)
           /\ HasCol(pos, "VAT_20") /\ HasCol(pos, "Category") /\ HasCol(pos, "Amount")
           /\ HasCol(df, "Date") => HasCol(pos, "YearMonth")
           /\ \A i \in DOMAIN clean.rows :
                 /\ clean.rows[i].VAT_20 = Vat20(clean.rows[i].Amount)
                 /\ (HasCol(df, "Amount")
                       /\ NotANumber(df.rows[clean.rows[i].idx + 1].Amount))
                    => /\ clean.rows[i].Amount = 0
                       /\ \A k \in DOMAIN pos.rows : pos.rows[k].idx # clean.rows[i].idx

C9_Witness ==
    /\ dpc = "manipulated" /\ entry = "call"
    /\ ~HasCol(df, "Category") /\ HasCol(df, "Date")
    /\ Len(result.clean.rows) = 2 /\ Len(result.pos.rows) = 1
    /\ df.rows[1].Amount = Word("x")
    /\ result.pos.rows[1].Category = Word("All")

\* C10 as stated: with a Date column every Cleaned row, also one whose Date is
\* missing or unparseable, has a year-month key as YearMonth, and so has every
\* Totals key and every Pivot column label.
C10_EveryYearMonthIsAKey ==
    (Manipulated /\ HasCol(df, "Date")) =>
        /\ \A i \in DOMAIN result.clean.rows :
              IsYearMonthKey(result.clean.rows[i].YearMonth.s)
        /\ \A t \in DOMAIN result.totals.rows :
              IsYearMonthKey(result.totals.rows[t].YearMonth.s)
        /\ \A m \in DOMAIN result.pivot.columns : IsYearMonthKey(result.pivot.columns[m])

\* C10 amended: with a Date column a Cleaned row whose Date cell holds a date has
\* the year-month key of that date as YearMonth, and a row whose Date is missing
\* or unparseable has the string "NaT"; every Totals key and every Pivot column
\* label is the YearMonth of a positive-only row, so a year-month key or "NaT".
C10_YearMonthIsKeyOrNaT ==
    (Manipulated /\ HasCol(df, "Date")) =>
        LET clean == result.clean.rows
            pos == result.pos.rows
            KeyOrNaT(s) == /\ IsYearMonthKey(s) \/ s = NaTStr
                           /\ \E i \in DOMAIN pos : pos[i].YearMonth.s = s
        IN /\ \A i \in DOMAIN clean :
                 LET c == df.rows[clean[i].idx + 1].Date
                 IN /\ clean[i].YearMonth.k = "txt"
                    /\ IF c.k = "date" THEN IsKeyOf(clean[i].YearMonth.s, c)
                                       ELSE clean[i].YearMonth.s = NaTStr
           /\ \A t \in DOMAIN result.totals.rows :
                 KeyOrNaT(result.totals.rows[t].YearMonth.s)
           /\ \A m \in DOMAIN result.pivot.columns : KeyOrNaT(result.pivot.columns[m])

C10_Witness ==
    /\ dpc = "manipulated" /\ HasCol(df, "Date") /\ HasCol(df, "Category")
    /\ Len(df.rows) = 2
    /\ df.rows[1].Date = NA /\ df.rows[2].Date = Dt(2025, 2, 3)
    /\ result.pivot.columns = <<February, NaTStr>>

====
